---------------------------- MODULE Spec2Model ----------------------------
(***************************************************************************)
(* A model of the few_shot decorator: few_shot.__call__ and its helpers    *)
(* (decorator.py), Example.check (example.py) and JsonFormatter            *)
(* (formatter.py).                                                         *)
(*                                                                         *)
(* Text is a sequence of tokens.  The tokens " " and "\n" are the          *)
(* whitespace characters, "{" and "}" the brace characters, and "E" stands *)
(* for the word  examples , so that <<"{", "E", "}">> is the placeholder   *)
(* "{examples}".  Every other token is one or more non-whitespace,         *)
(* non-brace characters.                                                   *)
(*                                                                         *)
(* An example is the record [args, kwargs, output] that decorator.py       *)
(* builds and formatter.py reads; Example.check of example.py reads its    *)
(* kwargs and output.  __call__ validates with the checks of decorator.py  *)
(* and does not call Example.check.  The third parameter of                *)
(* JsonFormatter.format, func_name, is not used by it and is left out.     *)
(***************************************************************************)
EXTENDS Integers, Sequences, FiniteSets, TLC

(***************************************************************************)
(* Bounds of the model.                                                    *)
(***************************************************************************)
MaxExamples == 2
MaxDocLen == 4
MaxJoinLen == 3
MaxDepth == 2
MaxCalls == 2
MaxKwargs == 3

(***************************************************************************)
(* Text helpers: str.lstrip, textwrap.dedent, str.join, the  in  test and  *)
(* str.format, as decorator.py uses them.                                  *)
(***************************************************************************)
WS == {" ", "\n"}

PLACEHOLDER == <<"{", "E", "}">>

RECURSIVE Lstrip(_)
Lstrip(s) ==
    IF s # <<>> /\ Head(s) \in WS THEN Lstrip(Tail(s)) ELSE s

\* text.split("\n"): the lines of s, always at least one.
RECURSIVE SplitLines(_)
SplitLines(s) ==
    IF \A i \in 1..Len(s) : s[i] # "\n" THEN <<s>>
    ELSE LET k == CHOOSE i \in 1..Len(s) :
                      s[i] = "\n" /\ \A j \in 1..(i-1) : s[j] # "\n"
         IN  <<SubSeq(s, 1, k-1)>> \o SplitLines(SubSeq(s, k+1, Len(s)))

\* sep.join(parts)
RECURSIVE Join(_, _)
Join(parts, sep) ==
    IF parts = <<>> THEN <<>>
    ELSE IF Len(parts) = 1 THEN parts[1]
    ELSE parts[1] \o sep \o Join(Tail(parts), sep)

IsBlankLine(l) == \A i \in 1..Len(l) : l[i] = " "

Indent(l) ==
    IF \E i \in 1..Len(l) : l[i] # " "
    THEN (CHOOSE i \in 1..Len(l) : l[i] # " " /\ \A j \in 1..(i-1) : l[j] = " ") - 1
    ELSE Len(l)

\* textwrap.dedent: lines of whitespace only become empty, and the longest
\* common leading run of spaces of the other lines is removed from them.
Dedent(s) ==
    LET lines   == SplitLines(s)
        solid   == {i \in 1..Len(lines) : ~IsBlankLine(lines[i])}
        margin  == IF solid = {} THEN 0
                   ELSE CHOOSE m \in {Indent(lines[i]) : i \in solid} :
                            \A i \in solid : m <= Indent(lines[i])
        cut(l)  == IF IsBlankLine(l) THEN <<>> ELSE SubSeq(l, margin + 1, Len(l))
    IN  Join([i \in 1..Len(lines) |-> cut(lines[i])], <<"\n">>)

\* sub in s
Contains(s, sub) ==
    \E i \in 1..(Len(s) - Len(sub) + 1) : SubSeq(s, i, i + Len(sub) - 1) = sub

\* doc.format(examples=ex): "{{" and "}}" are literal braces, "{examples}" is
\* replaced by ex, any other field name is a KeyError (the empty one an
\* IndexError), and a lone or unclosed brace is a ValueError.  The result is
\* [err |-> "none", text |-> ...] or [err |-> the exception, text |-> <<>>].
RECURSIVE FormatFrom(_, _, _)
FormatFrom(s, ex, acc) ==
    IF s = <<>> THEN [err |-> "none", text |-> acc]
    ELSE IF Head(s) = "{" THEN
        IF Len(s) >= 2 /\ s[2] = "{" THEN FormatFrom(SubSeq(s, 3, Len(s)), ex, acc \o <<"{">>)
        ELSE IF \A i \in 2..Len(s) : s[i] # "}" THEN [err |-> "ValueError", text |-> <<>>]
        ELSE LET k == CHOOSE i \in 2..Len(s) :
                          s[i] = "}" /\ \A j \in 2..(i-1) : s[j] # "}"
                 field == SubSeq(s, 2, k-1)
             IN  IF \E i \in 1..Len(field) : field[i] = "{"
                 THEN [err |-> "ValueError", text |-> <<>>]
                 ELSE IF field = <<"E">>
                 THEN FormatFrom(SubSeq(s, k+1, Len(s)), ex, acc \o ex)
                 ELSE IF field = <<>> THEN [err |-> "IndexError", text |-> <<>>]
                 ELSE [err |-> "KeyError", text |-> <<>>]
    ELSE IF Head(s) = "}" THEN
        IF Len(s) >= 2 /\ s[2] = "}" THEN FormatFrom(SubSeq(s, 3, Len(s)), ex, acc \o <<"}">>)
        ELSE [err |-> "ValueError", text |-> <<>>]
    ELSE FormatFrom(Tail(s), ex, acc \o <<Head(s)>>)

Format(doc, ex) == FormatFrom(doc, ex, <<>>)


(***************************************************************************)
(* Values.  Every value is a record [t, n, items]: t is the Python type of *)
(* the value, n its number when t = "int", items its elements when it is a *)
(* list, a tuple, a dict (the i-th item under the key KeyNames[i]) or a    *)
(* pydantic model object (the i-th item in the field KeyNames[i]).  A      *)
(* value of type "set" is the empty set(), which json cannot encode.       *)
(***************************************************************************)
KeyNames == <<"k1", "k2">>

IntV(k) == [t |-> "int", n |-> k, items |-> <<>>]
StrV == [t |-> "str", n |-> 0, items |-> <<>>]
SetV == [t |-> "set", n |-> 0, items |-> <<>>]
NoneV == [t |-> "None", n |-> 0, items |-> <<>>]
ListV(xs) == [t |-> "list", n |-> 0, items |-> xs]
TupleV(xs) == [t |-> "tuple", n |-> 0, items |-> xs]
DictV(xs) == [t |-> "dict", n |-> 0, items |-> xs]
ModelV(xs) == [t |-> "model", n |-> 0, items |-> xs]

Containers == {"list", "tuple", "dict", "model"}

Leaves == {IntV(1), StrV, SetV}

RECURSIVE ValuesOfDepth(_)
ValuesOfDepth(d) ==
    IF d = 0 THEN Leaves
    ELSE LET below == ValuesOfDepth(d - 1)
         IN  below \cup {[t |-> c, n |-> 0, items |-> <<v>>] : c \in Containers, v \in below}
                   \cup {ListV(<<>>), ListV(<<IntV(1), SetV>>)}

\* Does some leaf of v, at any depth, have no JSON encoding?
RECURSIVE HasBadLeaf(_)
HasBadLeaf(v) ==
    IF v.t \in Containers THEN \E i \in 1..Len(v.items) : HasBadLeaf(v.items[i])
    ELSE v.t \notin {"int", "str", "None"}

(***************************************************************************)
(* Type hints and pydantic's parse_obj_as(hint, value), as the checks      *)
(* call it: TRUE when the value validates, FALSE when parse_obj_as raises. *)
(* "Empty" is inspect's empty marker (no annotation), "Box" a model class  *)
(* with the single field k1 of any type, "list" is List[int].              *)
(***************************************************************************)
Hints == {"Empty", "Any", "int", "str", "list", "Box"}

Unspecific(ann) == ann = "Empty" \/ ann = "Any"

parse_obj_as(hint, value) ==
    CASE hint = "Any"   -> TRUE
      [] hint = "int"   -> value.t = "int"
      [] hint = "str"   -> value.t \in {"str", "int"}
      [] hint = "list"  -> /\ value.t \in {"list", "tuple", "set"}
                           /\ \A i \in 1..Len(value.items) : value.items[i].t = "int"
      [] hint = "Box"   -> value.t \in {"model", "dict"} /\ Len(value.items) >= 1
      [] OTHER          -> FALSE

(***************************************************************************)
(* JsonFormatter (formatter.py).                                           *)
(***************************************************************************)
\* BaseModel.dict(): the fields as a dict, nested models converted likewise.
RECURSIVE ModelDict(_)
ModelDict(v) ==
    IF v.t = "model" THEN DictV([i \in 1..Len(v.items) |-> ModelDict(v.items[i])])
    ELSE IF v.t \in Containers
    THEN [v EXCEPT !.items = [i \in 1..Len(v.items) |-> ModelDict(v.items[i])]]
    ELSE v

SerializeLeafM(value) == NoneV

SerializeLeaf(value) == value

RECURSIVE _serialize_value(_)
_serialize_value(value) ==
    IF value.t = "model" THEN ModelDict(value)
    ELSE IF value.t \in {"list", "tuple"}
    THEN ListV([i \in 1..Len(value.items) |-> _serialize_value(value.items[i])])
    ELSE IF value.t = "dict"
    THEN DictV([i \in 1..Len(value.items) |-> _serialize_value(value.items[i])])
    ELSE SerializeLeaf(value)

\* json.dumps raises TypeError on a value that json cannot encode.
RECURSIVE JsonEncodable(_)
JsonEncodable(v) ==
    CASE v.t \in {"int", "str", "None"} -> TRUE
      [] v.t \in {"list", "tuple", "dict"} ->
             \A i \in 1..Len(v.items) : JsonEncodable(v.items[i])
      [] OTHER -> FALSE

Quoted(name) == <<"\"", name, "\"">>

\* json.dumps(v) for an encodable v, as tokens.
RECURSIVE JsonText(_)
JsonText(v) ==
    CASE v.t = "int"  -> <<ToString(v.n)>>
      [] v.t = "str"  -> Quoted("s")
      [] v.t = "None" -> <<"null">>
      [] v.t \in {"list", "tuple"} ->
             <<"[">> \o Join([i \in 1..Len(v.items) |-> JsonText(v.items[i])], <<",", " ">>)
                     \o <<"]">>
      [] OTHER ->
             <<"{">> \o Join([i \in 1..Len(v.items) |->
                                Quoted(KeyNames[i]) \o <<":", " ">> \o JsonText(v.items[i])],
                             <<",", " ">>)
                     \o <<"}">>


RECURSIVE DictUpdateM(_, _)
DictUpdateM(d, kvs) == IF kvs = <<>> THEN d ELSE DictUpdateM(Append(d, Head(kvs)), Tail(kvs))

\* The dict the formatter builds: update(d, kvs) keeps the position of a key
\* that is already present and appends a new one.
RECURSIVE DictUpdate(_, _)
DictUpdate(d, kvs) ==
    IF kvs = <<>> THEN d
    ELSE LET kv == Head(kvs)
             at == {i \in 1..Len(d) : d[i].name = kv.name}
         IN  DictUpdate(IF at = {} THEN Append(d, kv)
                        ELSE [i \in 1..Len(d) |-> IF i \in at THEN kv ELSE d[i]],
                        Tail(kvs))

Min(a, b) == IF a <= b THEN a ELSE b

\* args_dict of JsonFormatter.format: the positional values under the names
\* of the parameters they pair with, then the keyword values.
ArgsDict(example, sig) ==
    LET positional == [i \in 1..Min(Len(sig.params), Len(example.args)) |->
                          [name |-> sig.params[i].name,
                           value |-> _serialize_value(example.args[i])]]
        keyword == [i \in 1..Len(example.kwargs) |->
                          [name |-> example.kwargs[i].name,
                           value |-> _serialize_value(example.kwargs[i].value)]]
    IN  DictUpdate(positional, keyword)

ArgsText(d) ==
    <<"{">> \o Join([i \in 1..Len(d) |->
                        Quoted(d[i].name) \o <<":", " ">> \o JsonText(d[i].value)],
                    <<",", " ">>)
            \o <<"}">>

NoError == [cls |-> "none", kind |-> "none", who |-> "none"]
Error(c, k, w) == [cls |-> c, kind |-> k, who |-> w]

\* JsonFormatter.format: [err, text].
JsonFormatterFormat(example, sig) ==
    LET d   == ArgsDict(example, sig)
        out == _serialize_value(example.output)
    IN  IF /\ \A i \in 1..Len(d) : JsonEncodable(d[i].value)
           /\ JsonEncodable(out)
        THEN [err |-> NoError,
              text |-> ArgsText(d) \o <<" ", "->", " ">> \o JsonText(out)]
        ELSE [err |-> Error("TypeError", "Serialization", "json"), text |-> <<>>]

(***************************************************************************)
(* Signatures: params is the sequence of parameters [name, kind, ann] in   *)
(* declaration order, kind "pos" (positional or keyword) or "varkw" (the   *)
(* variadic keyword parameter), ann the annotation, default whether it has *)
(* a default value; ret is the return annotation.                          *)
(***************************************************************************)
HintOf(sig, name) ==
    IF \E i \in 1..Len(sig.params) : sig.params[i].name = name
    THEN sig.params[CHOOSE i \in 1..Len(sig.params) : sig.params[i].name = name].ann
    ELSE "Absent"

\* The first error of a sequence of check results, NoError when there is none.
FirstError(rs) ==
    IF \A i \in 1..Len(rs) : rs[i] = NoError THEN NoError
    ELSE rs[CHOOSE i \in 1..Len(rs) : rs[i] # NoError /\ \A j \in 1..(i-1) : rs[j] = NoError]

(***************************************************************************)
(* Example.check (example.py).                                             *)
(***************************************************************************)
\* var_keyword_hint: the annotation of the variadic keyword parameter, "None" when
\* the signature has no such parameter.
VarKeywordHint(sig) ==
    IF \E i \in 1..Len(sig.params) : sig.params[i].kind = "varkw"
    THEN sig.params[CHOOSE i \in 1..Len(sig.params) : sig.params[i].kind = "varkw"].ann
    ELSE "None"

FallbackHintM(sig, name) == HintOf(sig, name)

\* The hint a keyword value is parsed against, "Invalid" when
\* InvalidParameter is raised for it.
FallbackHint(sig, name) ==
    LET hint == HintOf(sig, name)
    IN  IF hint = "Absent" \/ Unspecific(hint)
        THEN IF VarKeywordHint(sig) # "None" THEN VarKeywordHint(sig) ELSE "Invalid"
        ELSE hint

ExampleCheckKeyword(sig, kw) ==
    LET hint == FallbackHint(sig, kw.name)
    IN  IF hint = "Invalid" THEN Error("InvalidParameter", "InvalidParameter", kw.name)
        ELSE IF parse_obj_as(hint, kw.value) THEN NoError
        ELSE Error("TypeError", "TypeMismatch", kw.name)

CheckOutputType(output, hint) ==
    IF parse_obj_as(hint, output) THEN NoError
    ELSE Error("TypeError", "TypeMismatch", "output")

ExampleCheck(example, sig) ==
    FirstError([i \in 1..Len(example.kwargs) |-> ExampleCheckKeyword(sig, example.kwargs[i])]
               \o <<CheckOutputType(example.output, sig.ret)>>)

(***************************************************************************)
(* few_shot (decorator.py).                                                *)
(***************************************************************************)
ReturnTypeMissingM(sig) == sig.ret = "Empty"

\* _validate_return_type raises
ReturnTypeMissing(sig) == sig.ret = "Empty" \/ sig.ret = "Any"

CheckArgument(param, arg) ==
    IF Unspecific(param.ann) THEN Error("TypeError", "MissingTypeHint", param.name)
    ELSE IF parse_obj_as(param.ann, arg) THEN NoError
    ELSE Error("TypeError", "TypeMismatch", param.name)

\* _check_argument_types: zip(args, hints)
CheckArgumentTypes(args, sig) ==
    FirstError([i \in 1..Min(Len(args), Len(sig.params)) |->
                   CheckArgument(sig.params[i], args[i])])

CheckKeywordArgumentM(sig, kw) ==
    LET hint == HintOf(sig, kw.name)
    IN  IF hint = "Absent" \/ Unspecific(hint)
        THEN Error("TypeError", "MissingTypeHint", kw.name)
        ELSE NoError

CheckKeywordArgument(sig, kw) ==
    LET hint == HintOf(sig, kw.name)
    IN  IF hint = "Absent" \/ Unspecific(hint)
        THEN Error("TypeError", "MissingTypeHint", kw.name)
        ELSE IF parse_obj_as(hint, kw.value) THEN NoError
        ELSE Error("TypeError", "TypeMismatch", kw.name)

CheckKeywordArgumentTypes(kwargs, sig) ==
    FirstError([i \in 1..Len(kwargs) |-> CheckKeywordArgument(sig, kwargs[i])])

\* The body of the loop of _validate_examples for one example.
ValidateOne(example, sig) ==
    FirstError(<<CheckArgumentTypes(example.args, sig),
                 CheckKeywordArgumentTypes(example.kwargs, sig),
                 CheckOutputType(example.output, sig.ret)>>)

\* _modify_docstring, line 65: dedent(examples).lstrip()
DedentExamples(examples) == Lstrip(Dedent(examples))

DedentDocM(doc) == Dedent(doc)

\* _modify_docstring, line 67: dedent(doc).lstrip()
DedentDoc(doc) == Lstrip(Dedent(doc))

AppendExamplesM(doc, default_format, examples) == doc \o examples

\* _modify_docstring, line 73: doc + self.default_format + examples
AppendExamples(doc, default_format, examples) == doc \o default_format \o examples

NewDocstringM(default_format, examples) == default_format \o examples

\* _modify_docstring, line 76: (self.default_format + examples).lstrip()
NewDocstring(default_format, examples) == Lstrip(default_format \o examples)

\* _modify_docstring(doc, examples): [err, text].  doc is [some, text], with
\* some = FALSE for None; an empty docstring is false like None.
ModifyDocstring(doc, examples, default_format) ==
    LET ex == DedentExamples(examples)
    IN  IF doc.some /\ doc.text # <<>>
        THEN LET d == DedentDoc(doc.text)
             IN  IF Contains(d, PLACEHOLDER) THEN Format(d, ex)
                 ELSE [err |-> "none", text |-> AppendExamples(d, default_format, ex)]
        ELSE [err |-> "none", text |-> NewDocstring(default_format, ex)]

(***************************************************************************)
(* The original function.  OrigCall is what calling it with the positional *)
(* values args and the keyword values kwargs does: [raised, value].  It    *)
(* raises TypeError when the call does not bind to its signature; a        *)
(* function of body "raise" always raises, one of body "first" returns the *)
(* first value it was given.                                               *)
(***************************************************************************)
NoInput == [args |-> <<>>, kwargs |-> <<>>]

Binds(sig, in) ==
    LET pos   == {i \in 1..Len(sig.params) : sig.params[i].kind = "pos"}
        varkw == \E i \in 1..Len(sig.params) : sig.params[i].kind = "varkw"
        named == {in.kwargs[i].name : i \in 1..Len(in.kwargs)}
    IN  /\ Len(in.args) <= Cardinality(pos)
        /\ \A i \in pos : ~(i <= Len(in.args) /\ sig.params[i].name \in named)
        /\ \A i \in pos : \/ i <= Len(in.args)
                           \/ sig.params[i].name \in named
                           \/ sig.params[i].default
        /\ varkw \/ named \subseteq {sig.params[i].name : i \in pos}

OrigCall(f, in) ==
    IF ~Binds(f.sig, in) \/ f.body = "raise" THEN [raised |-> TRUE, value |-> NoneV]
    ELSE [raised |-> FALSE,
          value |-> IF in.args # <<>> THEN in.args[1] ELSE in.kwargs[1].value]

ForwardM(in) == [in EXCEPT !.kwargs = <<>>]

\* wrapper(*args, **kwargs) passes func(*args, **kwargs)
Forward(in) == in

WrapperResult(f, in) == OrigCall(f, Forward(in))

(***************************************************************************)
(* The state: the target function func = [sig, doc, body], the decorator's *)
(* fields examples, default_format and join_str, and the position pc of    *)
(* few_shot.__call__ with its locals: idx the example the running loop is  *)
(* at, example_strings, err the exception that left it, wrapper =          *)
(* [made, doc] the callable it returned.  log records the examples         *)
(* validated and formatted so far, in order; calls and lastCall the calls  *)
(* of the wrapper; probe the result of a direct Example.check or           *)
(* JsonFormatter.format.                                                   *)
(***************************************************************************)
VARIABLES func, examples, default_format, join_str, pc, idx, err,
          example_strings, wrapper, log, calls, lastCall, probe

vars == <<func, examples, default_format, join_str, pc, idx, err,
          example_strings, wrapper, log, calls, lastCall, probe>>

config == <<func, examples, default_format, join_str>>

NoDoc == [some |-> FALSE, text |-> <<>>]
DocOf(text) == [some |-> TRUE, text |-> text]

NoProbe == [op |-> "none", idx |-> 0, err |-> NoError, text |-> <<>>]

InitWith(Funcs, ExampleLists, DefaultFormats, JoinStrs) ==
    /\ func \in Funcs
    /\ examples \in ExampleLists
    /\ default_format \in DefaultFormats
    /\ join_str \in JoinStrs
    /\ pc = "start"
    /\ idx = 0
    /\ err = NoError
    /\ example_strings = <<>>
    /\ wrapper = [made |-> FALSE, doc |-> NoDoc]
    /\ log = <<>>
    /\ calls = 0
    /\ lastCall = [in |-> NoInput, passed |-> NoInput, out |-> [raised |-> FALSE, value |-> NoneV]]
    /\ probe = NoProbe

Raise(e) ==
    /\ pc' = "raised"
    /\ err' = e

\* __call__, line 51: self._validate_return_type(func)
ValidateReturnType ==
    /\ pc = "start"
    /\ IF ReturnTypeMissing(func.sig)
       THEN /\ Raise(Error("TypeError", "MissingTypeHint", "return"))
            /\ idx' = idx
       ELSE /\ pc' = IF examples = <<>> THEN "wrap" ELSE "validate"
            /\ idx' = 1
            /\ err' = err
    /\ UNCHANGED <<config, example_strings, wrapper, log, calls, lastCall, probe>>

LoopContinuesM(e) == TRUE

\* _validate_examples: the loop goes on to the next example only when no
\* check of this one raised
LoopContinues(e) == e = NoError

\* __call__, line 52: one iteration of the loop of _validate_examples
ValidateExample ==
    /\ pc = "validate"
    /\ log' = Append(log, [op |-> "validate", idx |-> idx])
    /\ LET e == ValidateOne(examples[idx], func.sig)
       IN  IF ~LoopContinues(e)
           THEN Raise(e) /\ idx' = idx
           ELSE /\ err' = err
                /\ IF idx < Len(examples)
                   THEN pc' = pc /\ idx' = idx + 1
                   ELSE pc' = "format" /\ idx' = 1
    /\ UNCHANGED <<config, example_strings, wrapper, calls, lastCall, probe>>

\* __call__, line 53: one iteration of the loop of _generate_example_strings
GenerateExampleString ==
    /\ pc = "format"
    /\ log' = Append(log, [op |-> "format", idx |-> idx])
    /\ LET r == JsonFormatterFormat(examples[idx], func.sig)
       IN  IF r.err # NoError
           THEN Raise(r.err) /\ UNCHANGED <<idx, example_strings>>
           ELSE /\ err' = err
                /\ example_strings' = Append(example_strings, r.text)
                /\ IF idx < Len(examples)
                   THEN pc' = pc /\ idx' = idx + 1
                   ELSE pc' = "wrap" /\ idx' = idx
    /\ UNCHANGED <<config, wrapper, calls, lastCall, probe>>

AttachM(strings) == TRUE

\* __call__, line 59: if example_strings
Attach(strings) == strings # <<>>

JoinExamplesM(strings, sep) == Join(strings, sep) \o sep

\* __call__, line 60: self.join_str.join(example_strings)
JoinExamples(strings, sep) == Join(strings, sep)

\* __call__, lines 55-62: the wrapper takes the function's docstring (wraps),
\* and the modified one when there are example strings.
MakeWrapper ==
    /\ pc = "wrap"
    /\ LET r == ModifyDocstring(func.doc, JoinExamples(example_strings, join_str),
                                default_format)
       IN  IF ~Attach(example_strings)
           THEN /\ wrapper' = [made |-> TRUE, doc |-> func.doc]
                /\ pc' = "done"
                /\ err' = err
           ELSE IF r.err = "none"
           THEN /\ wrapper' = [made |-> TRUE, doc |-> DocOf(r.text)]
                /\ pc' = "done"
                /\ err' = err
           ELSE /\ Raise(Error(r.err, "Format", "doc"))
                /\ wrapper' = wrapper
    /\ UNCHANGED <<config, idx, example_strings, log, calls, lastCall, probe>>

\* wrapper, lines 56-57
WrapperCall(in) ==
    /\ pc = "done"
    /\ calls < MaxCalls
    /\ calls' = calls + 1
    /\ lastCall' = [in |-> in, passed |-> Forward(in), out |-> WrapperResult(func, in)]
    /\ UNCHANGED <<config, pc, idx, err, example_strings, wrapper, log, probe>>

\* Example.check(signature), called directly on the i-th example
CheckExample(i) ==
    /\ pc = "start"
    /\ pc' = "checked"
    /\ probe' = [op |-> "check", idx |-> i, err |-> ExampleCheck(examples[i], func.sig),
                 text |-> <<>>]
    /\ UNCHANGED <<config, idx, err, example_strings, wrapper, log, calls, lastCall>>

\* JsonFormatter.format(example, sig, name), called directly on the i-th example
FormatExample(i) ==
    /\ pc = "start"
    /\ pc' = "formatted"
    /\ LET r == JsonFormatterFormat(examples[i], func.sig)
       IN  probe' = [op |-> "format", idx |-> i, err |-> r.err, text |-> r.text]
    /\ UNCHANGED <<config, idx, err, example_strings, wrapper, log, calls, lastCall>>


(***************************************************************************)
(* Inputs.                                                                 *)
(***************************************************************************)
SeqsUpTo(S, n) == UNION {[1..k -> S] : k \in 0..n}

Param(nm, k, a) == [name |-> nm, kind |-> k, ann |-> a, default |-> FALSE]
OptParam(nm, k, a) == [name |-> nm, kind |-> k, ann |-> a, default |-> TRUE]
KW(nm, v) == [name |-> nm, value |-> v]
Example(a, k, o) == [args |-> a, kwargs |-> k, output |-> o]

CallInputs ==
    {[args |-> <<StrV>>, kwargs |-> <<>>],
     [args |-> <<>>, kwargs |-> <<KW("x", IntV(1))>>],
     [args |-> <<IntV(1)>>, kwargs |-> <<KW("z", StrV)>>],
     [args |-> <<StrV, StrV, StrV>>, kwargs |-> <<>>]}

Seconds ==
    {<<>>, <<Param("y", "pos", "Empty")>>, <<Param("kw", "varkw", "int")>>,
     <<Param("kw", "varkw", "Empty")>>, <<Param("kw", "varkw", "Any")>>}

Sigs ==
    {[params |-> <<Param("x", "pos", a)>> \o second, ret |-> r] :
        a \in {"Any", "int", "str"}, second \in Seconds,
        r \in {"Empty", "Any", "int", "str"}}

CoreFuncs ==
    {[sig |-> sg, doc |-> DocOf(<<"a", "{", "E", "}">>), body |-> "first"] : sg \in Sigs}

CoreExamples ==
    {Example(<<>>, <<>>, IntV(1)),
     Example(<<>>, <<>>, StrV),
     Example(<<StrV>>, <<>>, StrV),
     Example(<<IntV(1)>>, <<>>, IntV(1)),
     Example(<<>>, <<KW("x", IntV(1))>>, StrV),
     Example(<<>>, <<KW("x", StrV)>>, IntV(1)),
     Example(<<>>, <<KW("y", SetV)>>, StrV),
     Example(<<>>, <<KW("z", IntV(1))>>, IntV(1)),
     Example(<<>>, <<KW("z", StrV)>>, StrV),
     Example(<<IntV(1)>>, <<KW("z", IntV(1)), KW("x", StrV)>>, StrV)}

\* The decoration, with the checks of every kind of signature and example.
Init ==
    InitWith(CoreFuncs, SeqsUpTo(CoreExamples, MaxExamples),
             {<<"\n", "H", "\n">>}, {<<"\n">>})

Next ==
    \/ ValidateReturnType
    \/ ValidateExample
    \/ GenerateExampleString
    \/ MakeWrapper
    \/ \E in \in CallInputs : WrapperCall(in)
    \/ \E i \in 1..Len(examples) : CheckExample(i)
    \/ \E i \in 1..Len(examples) : FormatExample(i)

Spec == Init /\ [][Next]_vars

\* The decoration of one function with valid examples, over every docstring.
DocAlphabet == {"a", " ", "\n", "{", "E", "}"}

TextSig ==
    [params |-> <<Param("x", "pos", "int"), OptParam("y", "pos", "str"),
                  Param("kw", "varkw", "str")>>,
     ret |-> "str"]

TextExample1 == Example(<<>>, <<KW("x", IntV(1))>>, StrV)
TextExample2 == Example(<<>>, <<KW("x", IntV(1)), KW("y", StrV)>>, StrV)
TextExample3 == Example(<<IntV(2)>>, <<>>, StrV)

Header == <<"\n", "H", "\n">>

InitDoc ==
    InitWith({[sig |-> TextSig, doc |-> d, body |-> "first"] :
                 d \in {NoDoc} \cup {DocOf(t) : t \in SeqsUpTo(DocAlphabet, MaxDocLen)}},
             {<<>>, <<TextExample1>>, <<TextExample1, TextExample2>>},
             {Header, <<" ", "H">>},
             {<<"\n">>, <<"\n", " ", "\n">>})

SpecDoc == InitDoc /\ [][Next]_vars

\* The decoration and the calls of the wrapper, over every join string.
InitJoin ==
    InitWith({[sig |-> TextSig, doc |-> d, body |-> b] :
                 d \in {NoDoc, DocOf(<<>>), DocOf(PLACEHOLDER), DocOf(<<"a">>)},
                 b \in {"first", "raise"}},
             SeqsUpTo({TextExample1, TextExample2, TextExample3}, MaxExamples),
             {Header, <<>>},
             SeqsUpTo({" ", "\n", "-"}, MaxJoinLen))

SpecJoin == InitJoin /\ [][Next]_vars

\* The formatter and the decoration, over values nested to MaxDepth.
FmtSigs ==
    {[params |-> <<Param("p", "pos", a)>>, ret |-> r] :
        a \in {"Box", "list", "str"}, r \in {"str", "list", "Box"}}

FmtExamples ==
    LET values == ValuesOfDepth(MaxDepth)
    IN  {Example(<<>>, <<KW("p", v)>>, StrV) : v \in values}
        \cup {Example(<<>>, <<KW("p", StrV)>>, v) : v \in values}
        \cup {Example(<<v>>, <<>>, StrV) : v \in values}

FmtGood == Example(<<>>, <<KW("p", DictV(<<IntV(1)>>))>>, StrV)

InitFmt ==
    InitWith({[sig |-> sg, doc |-> NoDoc, body |-> "first"] : sg \in FmtSigs},
             {<<e>> : e \in FmtExamples}
                 \cup {<<FmtGood, e>> : e \in FmtExamples},
             {Header}, {<<"\n">>})

SpecFmt == InitFmt /\ [][Next]_vars

\* The formatter and the decoration, over the orders in which an example
\* names its values.
KeySigs ==
    {[params |-> ps, ret |-> "int"] :
        ps \in {<<Param("x", "pos", "int"), Param("y", "pos", "int")>>,
                <<Param("y", "pos", "int"), Param("x", "pos", "int")>>,
                <<Param("x", "pos", "int"), Param("y", "pos", "int"),
                  Param("kw", "varkw", "int")>>}}

KeyOrders ==
    {ns \in SeqsUpTo({"x", "y", "z", "w"}, MaxKwargs) :
        \A i, j \in 1..Len(ns) : ns[i] = ns[j] => i = j}

KeyExamples ==
    {Example(a, [i \in 1..Len(ns) |-> KW(ns[i], IntV(2))], IntV(1)) :
        a \in {<<>>, <<IntV(1)>>, <<IntV(1), IntV(1)>>}, ns \in KeyOrders}

InitKeys ==
    InitWith({[sig |-> sg, doc |-> NoDoc, body |-> "first"] : sg \in KeySigs},
             {<<e>> : e \in KeyExamples}, {Header}, {<<"\n">>})

SpecKeys == InitKeys /\ [][Next]_vars

(***************************************************************************)
(* Properties.                                                             *)
(***************************************************************************)
Specific(ann) == ann \notin {"Absent", "Empty", "Any"}

Aborted == pc = "raised"

\* The decoration has not got past the validation of the examples.
NotPastValidation == pc \in {"start", "checked", "formatted", "validate", "raised"}

\* C1: when the return annotation of the target function is absent or Any,
\* the decoration raises MissingTypeHint for the return type, and it has then
\* validated no example and formatted none, whatever the examples are.
C1_ReturnTypeFirst ==
    func.sig.ret \in {"Empty", "Any"} =>
        /\ pc \in {"start", "checked", "formatted", "raised"}
        /\ ~wrapper.made
        /\ Aborted => /\ err = Error("TypeError", "MissingTypeHint", "return")
                      /\ log = <<>>
                      /\ example_strings = <<>>

\* The decoration of a function with the return annotation Any was aborted
\* though its list holds an example that fails validation and one that json
\* cannot encode.
C1_Witness ==
    /\ Aborted
    /\ func.sig.ret = "Any"
    /\ \E i \in 1..Len(examples) : ValidateOne(examples[i], func.sig) # NoError
    /\ \E i \in 1..Len(examples) :
           JsonFormatterFormat(examples[i], func.sig).err # NoError

\* A value of the example that its declared type rejects: a positional value
\* against the parameter it pairs with, a keyword value against the parameter
\* of its name, the output against the return annotation.
ExampleMismatch(e, sig) ==
    \/ \E i \in 1..Min(Len(e.args), Len(sig.params)) :
           Specific(sig.params[i].ann) /\ ~parse_obj_as(sig.params[i].ann, e.args[i])
    \/ \E i \in 1..Len(e.kwargs) :
           /\ Specific(HintOf(sig, e.kwargs[i].name))
           /\ ~parse_obj_as(HintOf(sig, e.kwargs[i].name), e.kwargs[i].value)
    \/ Specific(sig.ret) /\ ~parse_obj_as(sig.ret, e.output)

HasMismatch == \E i \in 1..Len(examples) : ExampleMismatch(examples[i], func.sig)

\* The return type and every parameter an example gives a value for has a
\* specific annotation.
HintsComplete ==
    /\ Specific(func.sig.ret)
    /\ \A n \in 1..Len(examples) :
           /\ \A i \in 1..Min(Len(examples[n].args), Len(func.sig.params)) :
                  Specific(func.sig.params[i].ann)
           /\ \A i \in 1..Len(examples[n].kwargs) :
                  Specific(HintOf(func.sig, examples[n].kwargs[i].name))

Unmatched(sig, name) == ~Specific(HintOf(sig, name))

\* The signature has a variadic keyword parameter with an annotation.
VarKeywordDeclared(sig) ==
    \E i \in 1..Len(sig.params) :
        sig.params[i].kind = "varkw" /\ sig.params[i].ann # "Empty"

\* C3: Example.check skips no named value whose name matches no parameter
\* with a specific type: without an annotated variadic keyword parameter the
\* check fails, and with one it fails when the value does not satisfy that
\* parameter's annotation.
C3_UnmatchedNeverSkipped ==
    probe.op = "check" =>
        LET e == examples[probe.idx]
        IN  \A i \in 1..Len(e.kwargs) :
                Unmatched(func.sig, e.kwargs[i].name) =>
                    IF VarKeywordDeclared(func.sig)
                    THEN parse_obj_as(VarKeywordHint(func.sig), e.kwargs[i].value)
                         \/ probe.err # NoError
                    ELSE probe.err # NoError

\* Example.check rejected the value of an unmatched name against the
\* annotation of the variadic keyword parameter.
C3_Witness ==
    /\ probe.op = "check"
    /\ VarKeywordDeclared(func.sig)
    /\ probe.err.kind = "TypeMismatch"
    /\ Unmatched(func.sig, probe.err.who)
    /\ \E i \in 1..Len(examples[probe.idx].kwargs) :
           examples[probe.idx].kwargs[i].name = probe.err.who

Rendering(i) == JsonFormatterFormat(examples[i], func.sig).text

Renderings == [i \in 1..Len(examples) |-> Rendering(i)]

\* The renderings rs with the join string j between each adjacent pair.
RECURSIVE Interleave(_, _)
Interleave(rs, j) ==
    IF Len(rs) = 0 THEN <<>>
    ELSE IF Len(rs) = 1 THEN rs[1]
    ELSE Interleave(SubSeq(rs, 1, Len(rs) - 1), j) \o j \o rs[Len(rs)]

\* s with every occurrence of the token tok replaced by the text by.
RECURSIVE ReplaceAll(_, _, _)
ReplaceAll(s, tok, by) ==
    IF Len(s) < Len(tok) THEN s
    ELSE IF SubSeq(s, 1, Len(tok)) = tok
    THEN by \o ReplaceAll(SubSeq(s, Len(tok) + 1, Len(s)), tok, by)
    ELSE <<Head(s)>> \o ReplaceAll(Tail(s), tok, by)

\* The decoration has ended, with a wrapper or with an exception.
Ended == pc \in {"done", "raised"}

\* C4: with an empty example list, the docstring of the callable the
\* decorator returns is the docstring of the original function, unchanged
\* (None when it has none).
C4_EmptyListKeepsDocstring ==
    (examples = <<>> /\ wrapper.made) => wrapper.doc = func.doc

\* A function with an indented docstring was decorated with no examples.
C4_Witness ==
    /\ examples = <<>>
    /\ wrapper.made
    /\ func.doc.some
    /\ Len(func.doc.text) >= 2
    /\ Head(func.doc.text) = " "

HasToken == func.doc.some /\ Contains(func.doc.text, PLACEHOLDER)

\* The docstring has no brace but those of the placeholder tokens.
OnlyTokenBraces ==
    LET rest == ReplaceAll(func.doc.text, PLACEHOLDER, <<"a">>)
    IN  \A i \in 1..Len(rest) : rest[i] \notin {"{", "}"}

NoToken == func.doc.some /\ func.doc.text # <<>> /\ ~Contains(func.doc.text, PLACEHOLDER)

BlockOnly == func.doc = DocOf(PLACEHOLDER)

\* No line inside the join string is made of spaces only.
JoinKept(j) ==
    LET lines == SplitLines(j)
    IN  \A i \in 2..(Len(lines) - 1) : lines[i] = <<>> \/ ~IsBlankLine(lines[i])

C9_WrapperForwards ==
    /\ [](calls > 0 => /\ lastCall.passed = lastCall.in
                       /\ lastCall.out = OrigCall(func, lastCall.in))
    /\ [][calls' # calls => UNCHANGED <<wrapper, log, example_strings, err, pc>>]_vars

\* The wrapper was called twice, the last time with keyword values, and the
\* original function returned a value.
C9_Witness ==
    /\ calls = 2
    /\ lastCall.in.kwargs # <<>>
    /\ ~lastCall.out.raised
    /\ log # <<>>

ExampleHasBadLeaf(e) ==
    \/ \E i \in 1..Len(e.kwargs) : HasBadLeaf(e.kwargs[i].value)
    \/ HasBadLeaf(e.output)

Count(text, tok, j) == Cardinality({k \in 1..j : text[k] = tok})

\* The token at i is the colon after a key of the inputs mapping, the first
\* mapping of the rendering.
IsInputKeyColon(text, i) ==
    /\ text[i] = ":"
    /\ i > 2
    /\ Count(text, "{", i) - Count(text, "}", i) = 1
    /\ \A j \in 1..i : Count(text, "{", j) > Count(text, "}", j)

\* The keys of the inputs mapping of a rendering, as they appear in it.
RECURSIVE KeysFrom(_, _)
KeysFrom(text, i) ==
    IF i > Len(text) THEN <<>>
    ELSE (IF IsInputKeyColon(text, i) THEN <<text[i - 2]>> ELSE <<>>)
             \o KeysFrom(text, i + 1)

RenderedKeys == KeysFrom(probe.text, 1)

Declared(sig, name) == \E i \in 1..Len(sig.params) : sig.params[i].name = name

ParamIndex(sig, name) == CHOOSE i \in 1..Len(sig.params) : sig.params[i].name = name

\* The position of the keyword name in the example, 0 when it has no such
\* keyword value.
KwIndex(e, name) ==
    IF \E i \in 1..Len(e.kwargs) : e.kwargs[i].name = name
    THEN CHOOSE i \in 1..Len(e.kwargs) : e.kwargs[i].name = name
    ELSE 0

\* The names of the parameters that the positional values pair with.
PositionalNames(e, sig) ==
    [i \in 1..Min(Len(e.args), Len(sig.params)) |-> sig.params[i].name]

RECURSIVE KeywordNamesNotIn(_, _)
KeywordNamesNotIn(kwargs, taken) ==
    IF kwargs = <<>> THEN <<>>
    ELSE (IF Head(kwargs).name \in taken THEN <<>> ELSE <<Head(kwargs).name>>)
             \o KeywordNamesNotIn(Tail(kwargs), taken)

Formatted == probe.op = "format" /\ probe.err = NoError

Validated == SelectSeq(log, LAMBDA l : l.op = "validate")

FormattedSoFar == SelectSeq(log, LAMBDA l : l.op = "format")

Passes(i) == ValidateOne(examples[i], func.sig) = NoError

\* C12: the examples are validated one at a time in list order, nothing is
\* validated after an example that fails, the error raised is the error of
\* that first failing example, and no example is formatted before every
\* example has passed validation.
C12_OrderedFailFast ==
    LET v == Validated
        f == FormattedSoFar
    IN  /\ log = v \o f
        /\ \A i \in 1..Len(v) : v[i].idx = i
        /\ \A i \in 1..Len(f) : f[i].idx = i
        /\ \A i \in 1..Len(v) - 1 : Passes(i)
        /\ (v # <<>> /\ ~Passes(Len(v))) =>
               /\ f = <<>>
               /\ pc = "raised"
               /\ err = ValidateOne(examples[Len(v)], func.sig)
               /\ err = FirstError([i \in 1..Len(examples) |-> ValidateOne(examples[i], func.sig)])
        /\ f # <<>> =>
               /\ Len(v) = Len(examples)
               /\ \A i \in 1..Len(examples) : Passes(i)

\* The first of two examples failed validation and the second, which would
\* fail with another error, was neither validated nor formatted.
C12_Witness ==
    /\ Len(examples) = 2
    /\ pc = "raised"
    /\ log = <<[op |-> "validate", idx |-> 1]>>
    /\ ~Passes(1)
    /\ ~Passes(2)
    /\ ValidateOne(examples[2], func.sig) # err

=============================================================================
